---- MODULE Spec2Model ----
(***************************************************************************)
(* The vehicle simulation engine of backend_v2/app/services/simulator.py   *)
(* (class VehicleSimulator) as a state machine.                            *)
(*                                                                         *)
(* The engine runs on one asyncio event loop: exactly one coroutine runs   *)
(* at a time, and control changes hands only at an await.  The model has   *)
(* two kinds of coroutine: the operator's call (start_simulation or        *)
(* stop_simulation; calls are issued one after the other) and the tick     *)
(* loop tasks made by asyncio.create_task(_simulation_loop()).  Every      *)
(* coroutine has a program counter; the counters named in OpSuspended and  *)
(* TaskSuspended are the awaits of the source, the others are positions    *)
(* inside a synchronous stretch, during which no other coroutine steps.    *)
(*                                                                         *)
(* Numbers are integers: speeds in km/h, weights in kg, progress in        *)
(* percent (floor).  A position is the place a vehicle is at: a place is   *)
(* the 100 m arrival neighbourhood of a waypoint location ("depot",        *)
(* "site") or "road" (more than 100 m from every waypoint).  The result of *)
(* the great-circle projection of a moving vehicle is a choice among the   *)
(* places it can come to; a vehicle that covers no distance stays.         *)
(*                                                                         *)
(* Cargo is a binary floating-point number, as in the source: a sum or a    *)
(* difference is rounded to the nearest number with MantissaBits           *)
(* significant bits (ties to even).  Speeds stay exact: no claim rests on  *)
(* their last bit.                                                         *)
(***************************************************************************)
EXTENDS Integers, Sequences, FiniteSets, TLC

\* ------------------------------------------------------------------ bounds
MaxStops == 2
MaxStarts == 2
MaxCallbacks == 1
MaxRestartStops == 1
MantissaBits == 3

Fleet == <<"TR-01", "TR-02">>
VehicleIds == {Fleet[a] : a \in DOMAIN Fleet}
Places == {"depot", "site"}
Road == "road"
Positions == Places \cup {Road}
TrafficPercents == {80, 120}
Orders == {[place |-> "depot", weight |-> 6], [place |-> "site", weight |-> 7]}

\* --------------------------------------------------- simulation parameters
update_interval == 2
simulation_speed_multiplier == 100
average_speed == 45
max_speed == 80
min_speed == 20
acceleration_rate == 10
deceleration_rate == 15
ArrivalRadiusM == 100

IDLE == "idle"
MOVING == "moving"
DELIVERING == "delivering"
COMPLETED == "completed"

VARIABLES
    active_simulations,   \* vehicle id -> VehicleState
    simulation_routes,    \* vehicle id -> SimulationRoute
    sim_order,            \* the keys of active_simulations in insertion order
    websocket_callbacks,  \* number of registered callbacks
    is_running,
    simulation_task,      \* 0 (None) or the index in tasks of the latest task
    tasks,                \* every task made by create_task, in order
    op,                   \* the operator's call in progress
    episodes,             \* vehicle id -> times the vehicle entered DELIVERING
    forced,               \* ids whose COMPLETED was set by stop_simulation
    loop_error,           \* "Error in simulation loop" has been logged
    \* ConnectionManager (live_ws.py)
    active_connections,   \* the list of connections, in order
    connection_info,      \* the connections that have metadata
    bc,                   \* the broadcast in progress
    attempts,             \* connection -> the sends tried, with their outcome
    conn,                 \* connection -> new, greeting, open, broken, closed
    \* one vehicle's steering and speed (_move_vehicle_towards_target), with
    \* the bearing its last move steered to and the heading before line 301
    kin,
    \* EnhancedOSRMClient (osrm_client.py)
    current_url,          \* "primary" or "fallback"
    distance_cache,       \* request -> absent, fresh or expired
    route_cache,          \* request -> absent, fresh or expired
    osrm,                 \* the public operation in progress
    aged,                 \* cache_ttl has passed since that operation was called
    service,              \* the remote service is "up" or "down" (unreachable)
    \* the engine under calls that overlap at their awaits
    conc

engine_vars == <<active_simulations, simulation_routes, sim_order,
                 websocket_callbacks, is_running, simulation_task, tasks, op,
                 episodes, forced, loop_error>>
ws_vars == <<active_connections, connection_info, bc, attempts, conn>>
kin_vars == <<kin>>
osrm_vars == <<current_url, distance_cache, route_cache, osrm, aged, service>>
conc_vars == <<conc>>
\* What the engine's steps leave alone.
outside == <<ws_vars, kin_vars, osrm_vars, conc_vars>>

vars == <<engine_vars, ws_vars, kin_vars, osrm_vars, conc_vars>>

\* ----------------------------------------------------------------- helpers
\* The point lists a caller may ask about (two points or more), and the
\* state of the client while no operation is in progress.
Requests == {"r1", "r2"}
NoCall == [op |-> "none", request |-> "none", pc |-> "idle", attempt |-> 0,
           outcomes |-> <<>>, urls |-> <<>>, sleeps |-> <<>>,
           result |-> "none", raised |-> FALSE]

\* The engine before its first call, as two overlapping callers see it:
\* the flag, the latest task, every task made, the vehicle table (vehicle
\* id -> the VehicleState object stored and its status), the number of
\* VehicleState objects made, each caller's call in progress, and the call
\* that returned last.
Operators == {"op1", "op2"}
NoConcCall == [pc |-> "idle", call |-> "none", awaited |-> 0, routes |-> 0]
ConcInit ==
    [is_running |-> FALSE, simulation_task |-> 0, tasks |-> <<>>,
     active_simulations |-> <<>>, objects |-> 0,
     calls |-> [c \in Operators |-> NoConcCall],
     last |-> "none"]

\* The connections that may subscribe, and the state of the manager's
\* broadcast while none is in progress.
Connections == {"A", "B", "C"}
NoBroadcast == [pc |-> "none", message |-> 0, i |-> 0, connection |-> "none",
                disconnected_connections |-> <<>>, caller |-> "none",
                over |-> <<>>, touched |-> FALSE, last |-> "none"]

Min(a, b) == IF a < b THEN a ELSE b
Max(a, b) == IF a > b THEN a ELSE b
Abs(a) == IF a < 0 THEN -a ELSE a

SeqsUpTo(S, n) == UNION {[1..k -> S] : k \in 0..n}
Range(s) == {s[a] : a \in DOMAIN s}

\* The routes a start call may be given: at most one route per vehicle of
\* the fleet, in the fleet's order, each with at most n orders.
FleetIndex(v) == CHOOSE a \in DOMAIN Fleet : Fleet[a] = v
RoutesOf(n) ==
    {rs \in SeqsUpTo([vehicle_id : VehicleIds, orders : SeqsUpTo(Orders, n)], Len(Fleet)) :
        \A a, b \in DOMAIN rs :
            a < b => FleetIndex(rs[a].vehicle_id) < FleetIndex(rs[b].vehicle_id)}
RouteLists == RoutesOf(MaxStops)
ShortRouteLists == RoutesOf(MaxRestartStops)

\* Floating-point rounding of the exact value x: the spacing of the numbers
\* around a magnitude, and the nearest of them (ties to the even mantissa).
RECURSIVE Ulp(_)
Ulp(a) == IF a < 2 ^ MantissaBits THEN 1 ELSE 2 * Ulp(a \div 2)

fl(x) ==
    LET a == Abs(x)
        u == Ulp(a)
        q == a \div u
        r == a % u
        m == IF 2 * r > u \/ (2 * r = u /\ q % 2 = 1) THEN q + 1 ELSE q
    IN  IF x < 0 THEN -(m * u) ELSE m * u

\* _initialize_vehicle_route, line 194: sum() adds the weights from the left.
RECURSIVE initial_cargo(_)
initial_cargo(orders) ==
    IF orders = <<>> THEN 0
    ELSE fl(initial_cargo(SubSeq(orders, 1, Len(orders) - 1)) + orders[Len(orders)].weight)

\* The exact sum of the weights of a list of orders.
RECURSIVE SumWeights(_)
SumWeights(orders) ==
    IF orders = <<>> THEN 0
    ELSE Head(orders).weight + SumWeights(Tail(orders))

\* ------------------------------------------------------- VehicleState
\* _initialize_vehicle_route: the waypoint list depot, every stop, depot.
Waypoints(orders) ==
    <<"depot">> \o [a \in 1..Len(orders) |-> orders[a].place] \o <<"depot">>

NewRoute(route) ==
    [waypoints |-> Waypoints(route.orders), orders |-> route.orders]

\* A vehicle state that is created already under way.
NewVehicleState_moving(route) ==
    [status |-> MOVING,
     position |-> "depot",
     speed |-> 0,
     current_cargo |-> initial_cargo(route.orders),
     fuel_used |-> 0,
     progress |-> 0,
     current_order_index |-> 0]

\* _initialize_vehicle_route, lines 194-206.
NewVehicleState(route) ==
    [status |-> IDLE,
     position |-> "depot",
     speed |-> 0,
     current_cargo |-> initial_cargo(route.orders),
     fuel_used |-> 0,
     progress |-> 0,
     current_order_index |-> 0]

\* _calculate_target_speed; traffic is random.uniform(0.8, 1.2) in percent.
\* weight_factor = 1 - cargo / 2000 * 0.2 = (10000 - cargo) / 10000.
calculate_target_speed(vs, traffic) ==
    IF vs.status = DELIVERING THEN 0
    ELSE IF vs.status = IDLE THEN 0
    ELSE LET base_speed == (average_speed * (10000 - vs.current_cargo) * traffic) \div 1000000
         IN  Max(min_speed, Min(max_speed, base_speed))

\* _move_vehicle_towards_target, lines 303-318: the new speed.
NextSpeed(vs, traffic) ==
    LET target_speed == calculate_target_speed(vs, traffic)
        speed_diff == target_speed - vs.speed
        max_acceleration ==
            (IF speed_diff > 0 THEN acceleration_rate ELSE deceleration_rate) * update_interval
        speed ==
            IF Abs(speed_diff) > max_acceleration
            THEN vs.speed + (IF speed_diff > 0 THEN max_acceleration ELSE -max_acceleration)
            ELSE target_speed
    IN  Max(0, Min(max_speed, speed))

\* lines 320-322, in meters.
DistanceM(speed) ==
    (speed * simulation_speed_multiplier * update_interval * 1000) \div 3600

\* lines 324-331: where _move_along_bearing can put a vehicle that was at
\* position pos and covers d meters.  Covering nothing it stays; covering
\* at least the diameter of an arrival neighbourhood it leaves the one it
\* was in.
Reachable(pos, d) ==
    IF d = 0 THEN {pos}
    ELSE IF d >= 2 * ArrivalRadiusM /\ pos \in Places THEN Positions \ {pos}
    ELSE Positions

\* lines 334-336: fuel_used grows by distance_km * fuel_rate, and fuel_rate
\* is positive.  The amount is kept as 0 or SomeFuel, any positive amount.
SomeFuel == 1
move_vehicle_towards_target(vs, traffic, pos) ==
    [vs EXCEPT !.speed = NextSpeed(vs, traffic), !.position = pos,
               !.fuel_used = IF DistanceM(NextSpeed(vs, traffic)) > 0
                             THEN SomeFuel ELSE @]

\* _update_vehicle_position, lines 257-261.
TargetIndex(vs, route) ==
    Min(vs.current_order_index + 1, Len(route.waypoints) - 1)

\* A variant of the delivery branch that takes the order at waypoint_index
\* instead of waypoint_index - 1.
handle_waypoint_arrival_next_order(vs, route, waypoint_index) ==
    IF waypoint_index = 0
    THEN [vs EXCEPT !.status = MOVING, !.current_order_index = 0]
    ELSE IF waypoint_index = Len(route.waypoints) - 1
    THEN [vs EXCEPT !.status = COMPLETED, !.progress = 100,
                    !.current_cargo = 0, !.speed = 0]
    ELSE LET order_index == waypoint_index
         IN  [vs EXCEPT !.status = DELIVERING,
                        !.current_cargo =
                            IF order_index < Len(route.orders)
                            THEN fl(@ - route.orders[order_index + 1].weight)
                            ELSE @]

\* A variant of the final branch that leaves the cargo as it is.
handle_waypoint_arrival_keep_cargo(vs, route, waypoint_index) ==
    IF waypoint_index = 0
    THEN [vs EXCEPT !.status = MOVING, !.current_order_index = 0]
    ELSE IF waypoint_index = Len(route.waypoints) - 1
    THEN [vs EXCEPT !.status = COMPLETED, !.progress = 100, !.speed = 0]
    ELSE LET order_index == waypoint_index - 1
         IN  [vs EXCEPT !.status = DELIVERING,
                        !.current_cargo =
                            IF order_index < Len(route.orders)
                            THEN fl(@ - route.orders[order_index + 1].weight)
                            ELSE @]

\* _handle_waypoint_arrival up to its await (lines 342-361).
handle_waypoint_arrival(vs, route, waypoint_index) ==
    IF waypoint_index = 0
    THEN [vs EXCEPT !.status = MOVING, !.current_order_index = 0]
    ELSE IF waypoint_index = Len(route.waypoints) - 1
    THEN [vs EXCEPT !.status = COMPLETED, !.progress = 100,
                    !.current_cargo = 0, !.speed = 0]
    ELSE LET order_index == waypoint_index - 1
         IN  [vs EXCEPT !.status = DELIVERING,
                        !.current_cargo =
                            IF order_index < Len(route.orders)
                            THEN fl(@ - route.orders[order_index + 1].weight)
                            ELSE @]

\* A variant of line 370 that takes the share of the route still ahead.
AfterDelivery_share_ahead(vs, route, waypoint_index) ==
    [vs EXCEPT !.status = MOVING,
               !.current_order_index = waypoint_index,
               !.progress = ((Len(route.waypoints) - 1 - waypoint_index) * 100)
                                \div (Len(route.waypoints) - 1)]

\* _handle_waypoint_arrival after its await (lines 366-370).
AfterDelivery(vs, route, waypoint_index) ==
    [vs EXCEPT !.status = MOVING,
               !.current_order_index = waypoint_index,
               !.progress = (waypoint_index * 100) \div (Len(route.waypoints) - 1)]

\* Whether the arrival at waypoint_index sleeps (the delivery branch).
IsDeliveryStop(route, waypoint_index) ==
    waypoint_index # 0 /\ waypoint_index # Len(route.waypoints) - 1

\* _broadcast_all_vehicle_states, lines 463-468 (the fields to_dict gives
\* that the engine's status logic sets).
Snapshot(sims, running) ==
    [vehicles |-> [v \in DOMAIN sims |->
                     [status |-> sims[v].status, progress |-> sims[v].progress]],
     simulation_active |-> running]

\* ------------------------------------------------------------ coroutines
NoSnapshot == Snapshot(<<>>, FALSE)
\* built and snap record what _broadcast_all_vehicle_states did in the
\* current tick: how many snapshots it built, and the one being sent.
NewTask ==
    [pc |-> "created", i |-> 0, active_vehicles |-> 0, wp |-> 0, j |-> 0,
     must_cancel |-> FALSE, built |-> 0, snap |-> NoSnapshot]

\* The awaits of _simulation_loop: before its first step, the delivery sleep
\* (line 364), a callback (line 473), the tick sleep (line 239).
TaskSuspended == {"created", "pause", "send_wait", "sleep"}
TaskRunningPcs == {"top", "iter", "bcast", "check"}
\* The awaits of a call: none in progress, the cancelled task (line 142), a
\* callback (line 473), the route geometry (line 174).
OpSuspended == {"idle", "stop_wait", "stop_send", "init_wait"}

AnyTaskRunning == \E t \in DOMAIN tasks : tasks[t].pc \in TaskRunningPcs
OpRunning == op.pc \notin OpSuspended
\* Task t may take its next step: it is the coroutine that runs, or it is
\* suspended and no coroutine runs.
MayStep(t) ==
    \/ tasks[t].pc \in TaskRunningPcs
    \/ tasks[t].pc \in TaskSuspended /\ ~OpRunning /\ ~AnyTaskRunning
\* The call may take its next step.
OpMayStep == OpRunning \/ ~AnyTaskRunning

TaskDone(t) == [t EXCEPT !.pc = "done", !.i = 0, !.active_vehicles = 0,
                         !.wp = 0, !.j = 0, !.built = 0, !.snap = NoSnapshot]

Init ==
    /\ active_simulations = <<>>
    /\ simulation_routes = <<>>
    /\ sim_order = <<>>
    /\ websocket_callbacks = 0
    /\ is_running = FALSE
    /\ simulation_task = 0
    /\ tasks = <<>>
    /\ op = [pc |-> "idle", call |-> "none", routes |-> <<>>, r |-> 0, j |-> 0,
             snaps |-> <<>>, last |-> "none", prev |-> "none",
             prev_snaps |-> <<>>, live |-> FALSE, prev_live |-> FALSE,
             untouched |-> FALSE]
    /\ episodes = <<>>
    /\ forced = {}
    /\ loop_error = FALSE
    /\ active_connections = <<>>
    /\ connection_info = {}
    /\ bc = NoBroadcast
    /\ attempts = [c \in Connections |-> <<>>]
    /\ conn = [c \in Connections |-> "new"]
    /\ kin = [status |-> IDLE, heading |-> 0, speed |-> 0, current_cargo |-> 0,
              turned |-> 0, bearing |-> 0]
    /\ current_url = "primary"
    /\ distance_cache = [r \in Requests |-> "absent"]
    /\ route_cache = [r \in Requests |-> "absent"]
    /\ osrm = NoCall
    /\ aged = FALSE
    /\ service = "up"
    /\ conc = ConcInit

\* add_websocket_callback, called while the application is wired up
\* (setup_simulator_callbacks), before the engine's first call.
add_websocket_callback ==
    /\ op.pc = "idle" /\ op.last = "none" /\ tasks = <<>>
    /\ websocket_callbacks < MaxCallbacks
    /\ websocket_callbacks' = websocket_callbacks + 1
    /\ UNCHANGED <<outside, active_simulations, simulation_routes, sim_order, is_running,
                   simulation_task, tasks, op, episodes, forced,
                   loop_error>>

\* ------------------------------------------------------ _simulation_loop
\* The task's first step (line 215).
LoopStart(t) ==
    /\ tasks[t].pc = "created" /\ ~tasks[t].must_cancel /\ MayStep(t)
    /\ tasks' = [tasks EXCEPT ![t].pc = "top"]
    /\ UNCHANGED <<outside, active_simulations, simulation_routes, sim_order,
                   websocket_callbacks, is_running, simulation_task, op,
                   episodes, forced, loop_error>>

\* Line 218, and the finally of line 246 when the condition fails.
LoopTop(t) ==
    /\ tasks[t].pc = "top"
    /\ IF is_running /\ sim_order # <<>>
       THEN /\ tasks' = [tasks EXCEPT ![t].pc = "iter", ![t].i = 1,
                                      ![t].active_vehicles = 0]
            /\ UNCHANGED is_running
       ELSE /\ tasks' = [tasks EXCEPT ![t] = TaskDone(@)]
            /\ is_running' = FALSE
    /\ UNCHANGED <<outside, active_simulations, simulation_routes, sim_order,
                   websocket_callbacks, simulation_task, op, episodes, forced, loop_error>>

\* Lines 223-224: a COMPLETED vehicle is passed over.
LoopSkip(t) ==
    /\ tasks[t].pc = "iter" /\ tasks[t].i <= Len(sim_order)
    /\ active_simulations[sim_order[tasks[t].i]].status = COMPLETED
    /\ tasks' = [tasks EXCEPT ![t].i = @ + 1]
    /\ UNCHANGED <<outside, active_simulations, simulation_routes, sim_order,
                   websocket_callbacks, is_running, simulation_task, op,
                   episodes, forced, loop_error>>

\* Lines 225-226: _update_vehicle_position of the next vehicle, up to the
\* delivery sleep when the vehicle arrives at a stop.
update_vehicle_position(t) ==
    /\ tasks[t].pc = "iter" /\ tasks[t].i <= Len(sim_order)
    /\ LET v == sim_order[tasks[t].i]
           vs == active_simulations[v]
           route == simulation_routes[v]
           target == TargetIndex(vs, route)
       IN  /\ vs.status # COMPLETED
           /\ \E traffic \in TrafficPercents :
              \E pos \in Reachable(vs.position, DistanceM(NextSpeed(vs, traffic))) :
                LET moved == move_vehicle_towards_target(vs, traffic, pos)
                    arrived == moved.position = route.waypoints[target + 1]
                    after == IF arrived THEN handle_waypoint_arrival(moved, route, target)
                             ELSE moved
                IN  /\ active_simulations' = [active_simulations EXCEPT ![v] = after]
                    /\ IF arrived /\ IsDeliveryStop(route, target)
                       THEN /\ tasks' = [tasks EXCEPT ![t].pc = "pause", ![t].wp = target]
                            /\ episodes' = [episodes EXCEPT ![v] = Min(@ + 1, MaxStops + 2)]
                       ELSE /\ tasks' = [tasks EXCEPT ![t].i = @ + 1,
                                                      ![t].active_vehicles = @ + 1]
                            /\ UNCHANGED episodes
    /\ UNCHANGED <<outside, simulation_routes, sim_order, websocket_callbacks, is_running,
                   simulation_task, op, forced, loop_error>>

\* Lines 366-370 and 226: the delivery sleep is over.
LoopPauseEnd(t) ==
    /\ tasks[t].pc = "pause" /\ ~tasks[t].must_cancel /\ MayStep(t)
    /\ LET v == sim_order[tasks[t].i]
       IN  active_simulations' =
               [active_simulations EXCEPT
                    ![v] = AfterDelivery(@, simulation_routes[v], tasks[t].wp)]
    /\ tasks' = [tasks EXCEPT ![t].pc = "iter", ![t].wp = 0, ![t].i = @ + 1,
                              ![t].active_vehicles = @ + 1]
    /\ UNCHANGED <<outside, simulation_routes, sim_order, websocket_callbacks, is_running,
                   simulation_task, op, episodes, forced, loop_error>>

\* An unexpected error in _update_vehicle_position (a math domain error of
\* lines 417 or 405) reaches line 243; the finally of line 246 follows.
LoopRaise(t) ==
    /\ tasks[t].pc = "iter" /\ tasks[t].i <= Len(sim_order)
    /\ active_simulations[sim_order[tasks[t].i]].status # COMPLETED
    /\ tasks' = [tasks EXCEPT ![t] = TaskDone(@)]
    /\ is_running' = FALSE
    /\ loop_error' = TRUE
    /\ UNCHANGED <<outside, active_simulations, simulation_routes, sim_order,
                   websocket_callbacks, simulation_task, op, episodes, forced>>

\* A loop that broadcast inside its for loop, after each vehicle, would
\* build snapshots from the middle of a tick.
LoopBroadcast_each_vehicle(t) ==
    /\ tasks[t].pc = "iter" /\ tasks[t].i > 1
    /\ websocket_callbacks > 0
    /\ tasks' = [tasks EXCEPT
                   ![t].pc = "send_wait", ![t].i = 0, ![t].j = 1,
                   ![t].built = @ + 1,
                   ![t].snap = Snapshot(active_simulations, is_running)]
    /\ UNCHANGED <<outside, active_simulations, simulation_routes, sim_order,
                   websocket_callbacks, is_running, simulation_task, op,
                   episodes, forced, loop_error>>

\* Line 229: every vehicle has been visited; _broadcast_all_vehicle_states
\* up to its first await.
LoopBroadcast(t) ==
    /\ tasks[t].pc = "iter" /\ tasks[t].i > Len(sim_order)
    /\ IF websocket_callbacks = 0
       THEN /\ tasks' = [tasks EXCEPT ![t].pc = "check", ![t].i = 0]
       ELSE /\ tasks' = [tasks EXCEPT
                            ![t].pc = "send_wait", ![t].i = 0, ![t].j = 1,
                            ![t].built = @ + 1,
                            ![t].snap = Snapshot(active_simulations, is_running)]
    /\ UNCHANGED <<outside, active_simulations, simulation_routes, sim_order,
                   websocket_callbacks, is_running, simulation_task, op,
                   episodes, forced, loop_error>>

\* Lines 471-475: a callback returns, or raises an Exception that is logged.
LoopSendReturn(t) ==
    /\ tasks[t].pc = "send_wait" /\ ~tasks[t].must_cancel /\ MayStep(t)
    /\ IF tasks[t].j < websocket_callbacks
       THEN tasks' = [tasks EXCEPT ![t].j = @ + 1]
       ELSE tasks' = [tasks EXCEPT ![t].pc = "check", ![t].j = 0,
                                   ![t].snap = NoSnapshot]
    /\ UNCHANGED <<outside, active_simulations, simulation_routes, sim_order,
                   websocket_callbacks, is_running, simulation_task, op,
                   episodes, forced, loop_error>>

\* Lines 232-239: break (and the finally) when no vehicle was advanced, the
\* tick sleep otherwise.
LoopCheck(t) ==
    /\ tasks[t].pc = "check"
    /\ IF tasks[t].active_vehicles = 0
       THEN /\ tasks' = [tasks EXCEPT ![t] = TaskDone(@)]
            /\ is_running' = FALSE
       ELSE /\ tasks' = [tasks EXCEPT ![t].pc = "sleep", ![t].active_vehicles = 0,
                                      ![t].built = 0]
            /\ UNCHANGED is_running
    /\ UNCHANGED <<outside, active_simulations, simulation_routes, sim_order,
                   websocket_callbacks, simulation_task, op, episodes, forced, loop_error>>

\* The tick sleep is over.
LoopWake(t) ==
    /\ tasks[t].pc = "sleep" /\ ~tasks[t].must_cancel /\ MayStep(t)
    /\ tasks' = [tasks EXCEPT ![t].pc = "top"]
    /\ UNCHANGED <<outside, active_simulations, simulation_routes, sim_order,
                   websocket_callbacks, is_running, simulation_task, op,
                   episodes, forced, loop_error>>

\* task.cancel() (line 140) takes effect at the await the task is suspended
\* in: CancelledError is raised there, caught at line 241, and the finally
\* of line 246 runs.  A task that never ran is cancelled without running.
LoopCancelled(t) ==
    /\ tasks[t].pc \in TaskSuspended /\ tasks[t].must_cancel /\ MayStep(t)
    /\ tasks' = [tasks EXCEPT ![t] = TaskDone(@)]
    /\ is_running' = IF tasks[t].pc = "created" THEN is_running ELSE FALSE
    /\ UNCHANGED <<outside, active_simulations, simulation_routes, sim_order,
                   websocket_callbacks, simulation_task, op, episodes, forced, loop_error>>

\* The steps of a task that nothing interrupts.
LoopStep(t) ==
    \/ LoopStart(t)
    \/ LoopTop(t)
    \/ LoopSkip(t)
    \/ update_vehicle_position(t)
    \/ LoopPauseEnd(t)
    \/ LoopBroadcast(t)
    \/ LoopSendReturn(t)
    \/ LoopCheck(t)
    \/ LoopWake(t)

simulation_loop ==
    \E t \in DOMAIN tasks : LoopStep(t) \/ LoopCancelled(t)

\* ------------------------------------------------------- stop_simulation
\* Lines 137-142: the flag, and the cancellation of a task that is not done.
\* call is "stop" for a call of stop_simulation and "start" for the one
\* start_simulation makes at line 117.  The call's record keeps what the
\* previous call returned (prev) and emitted (prev_snaps), whether this call
\* and the previous one found a task to cancel (live, prev_live), and whether
\* the task it stops had not taken a step (untouched).
StopBegin(call, routes) ==
    /\ op.pc = "idle" /\ OpMayStep
    /\ is_running' = FALSE
    /\ LET live == simulation_task # 0 /\ tasks[simulation_task].pc # "done"
       IN  /\ tasks' = IF live
                       THEN [tasks EXCEPT ![simulation_task].must_cancel = TRUE]
                       ELSE tasks
           /\ op' = [pc |-> IF live THEN "stop_wait" ELSE "stop_mark",
                     call |-> call, routes |-> routes, r |-> 0, j |-> 0,
                     snaps |-> <<>>, last |-> op.last, prev |-> op.last,
                     prev_snaps |-> op.snaps, live |-> live,
                     prev_live |-> op.live,
                     untouched |-> simulation_task # 0
                                   /\ tasks[simulation_task].pc = "created"]
    /\ UNCHANGED <<outside, active_simulations, simulation_routes, sim_order,
                   websocket_callbacks, simulation_task, episodes, forced, loop_error>>

stop_simulation == StopBegin("stop", op.routes)

\* A variant of stop_simulation that does not await the cancelled task.
StopNotAwaited ==
    /\ op.pc = "stop_wait" /\ OpMayStep
    /\ op' = [op EXCEPT !.pc = "stop_mark"]
    /\ UNCHANGED <<outside, active_simulations, simulation_routes, sim_order,
                   websocket_callbacks, is_running, simulation_task, tasks,
                   episodes, forced, loop_error>>

\* Lines 142-144: the awaited task is done (it ended, or raised the
\* CancelledError that line 143 catches).
StopAwaited ==
    /\ op.pc = "stop_wait" /\ OpMayStep
    /\ tasks[simulation_task].pc = "done"
    /\ op' = [op EXCEPT !.pc = "stop_mark"]
    /\ UNCHANGED <<outside, active_simulations, simulation_routes, sim_order,
                   websocket_callbacks, is_running, simulation_task, tasks,
                   episodes, forced, loop_error>>

\* A variant of lines 147-149 that leaves the progress as it is.
MarkStatusOnly(sims) ==
    [v \in DOMAIN sims |-> [sims[v] EXCEPT !.status = COMPLETED]]

\* A variant of lines 147-149 that marks a vehicle once: one that is
\* COMPLETED already is handed back as IDLE.
MarkCompleted_once(sims) ==
    [v \in DOMAIN sims |->
       IF sims[v].status = COMPLETED
       THEN [sims[v] EXCEPT !.status = IDLE]
       ELSE [sims[v] EXCEPT !.status = COMPLETED, !.progress = 100]]

\* Lines 147-149.
MarkCompleted(sims) ==
    [v \in DOMAIN sims |-> [sims[v] EXCEPT !.status = COMPLETED, !.progress = 100]]

\* Lines 146-151: every vehicle is marked, and _broadcast_all_vehicle_states
\* runs up to its first await.
StopMark ==
    /\ op.pc = "stop_mark"
    /\ active_simulations' = MarkCompleted(active_simulations)
    /\ forced' = forced \cup {v \in DOMAIN active_simulations :
                                active_simulations[v].status # COMPLETED}
    /\ IF websocket_callbacks = 0
       THEN /\ op' = [op EXCEPT !.pc = "stop_ret"]
       ELSE LET snap == Snapshot(active_simulations', is_running)
            IN  /\ op' = [op EXCEPT !.pc = "stop_send", !.j = 1,
                                    !.snaps = Append(@, snap)]
    /\ UNCHANGED <<outside, simulation_routes, sim_order, websocket_callbacks, is_running,
                   simulation_task, tasks, episodes, loop_error>>

\* Lines 471-475 under stop_simulation: a callback returns or raises.
StopSendReturn ==
    /\ op.pc = "stop_send" /\ OpMayStep
    /\ IF op.j < websocket_callbacks
       THEN op' = [op EXCEPT !.j = @ + 1]
       ELSE op' = [op EXCEPT !.pc = "stop_ret", !.j = 0]
    /\ UNCHANGED <<outside, active_simulations, simulation_routes, sim_order,
                   websocket_callbacks, is_running, simulation_task, tasks,
                   episodes, forced, loop_error>>

\* Line 153: stop_simulation returns, to the operator or to line 119.
StopReturn ==
    /\ op.pc = "stop_ret"
    /\ op' = IF op.call = "stop"
             THEN [op EXCEPT !.pc = "idle", !.call = "none", !.last = "stop"]
             ELSE IF op.routes = <<>>
             THEN [op EXCEPT !.pc = "launch"]
             ELSE [op EXCEPT !.pc = "init_wait", !.r = 1]
    /\ UNCHANGED <<outside, active_simulations, simulation_routes, sim_order,
                   websocket_callbacks, is_running, simulation_task, tasks,
                   episodes, forced, loop_error>>

\* ------------------------------------------------------ start_simulation
\* Lines 113-117.
start_simulation(routes) == StopBegin("start", routes)

\* Lines 120-121 and _initialize_vehicle_route, lines 181-208, once the
\* geometry of line 174 is there: the route and the vehicle state are stored
\* under the vehicle id.
initialize_vehicle_route ==
    /\ op.pc = "init_wait" /\ OpMayStep
    /\ LET route == op.routes[op.r]
           vehicle_id == route.vehicle_id
       IN  /\ simulation_routes' = (vehicle_id :> NewRoute(route)) @@ simulation_routes
           /\ active_simulations' =
                  (vehicle_id :> NewVehicleState(route)) @@ active_simulations
           /\ sim_order' = IF vehicle_id \in Range(sim_order) THEN sim_order
                           ELSE Append(sim_order, vehicle_id)
           /\ episodes' = (vehicle_id :> 0) @@ episodes
           /\ forced' = forced \ {vehicle_id}
    /\ op' = IF op.r < Len(op.routes)
             THEN [op EXCEPT !.r = @ + 1]
             ELSE [op EXCEPT !.pc = "launch", !.r = 0]
    /\ UNCHANGED <<outside, websocket_callbacks, is_running, simulation_task, tasks,
                   loop_error>>

\* Lines 124-128.
Launch ==
    /\ op.pc = "launch"
    /\ is_running' = TRUE
    /\ tasks' = Append(tasks, NewTask)
    /\ simulation_task' = Len(tasks) + 1
    /\ op' = [op EXCEPT !.pc = "idle", !.call = "none", !.last = "start_true"]
    /\ UNCHANGED <<outside, active_simulations, simulation_routes, sim_order,
                   websocket_callbacks, episodes, forced,
                   loop_error>>

\* The steps of a call that found no task to cancel.
CallStep ==
    \/ StopMark
    \/ StopSendReturn
    \/ StopReturn
    \/ initialize_vehicle_route
    \/ Launch

OpStep == StopAwaited \/ CallStep

\* The engine under any sequence of calls: at most MaxStarts runs, of routes
\* with at most MaxRestartStops stops.
Next ==
    \/ add_websocket_callback
    \/ \E routes \in ShortRouteLists :
           Len(tasks) < MaxStarts /\ start_simulation(routes)
    \/ stop_simulation
    \/ OpStep
    \/ simulation_loop
    \/ \E t \in DOMAIN tasks : LoopRaise(t)

Spec == Init /\ [][Next]_vars

\* One run on a fresh engine, of routes with at most MaxStops stops.
RunNext ==
    \/ add_websocket_callback
    \/ \E routes \in RouteLists : tasks = <<>> /\ start_simulation(routes)
    \/ stop_simulation
    \/ OpStep
    \/ simulation_loop
    \/ \E t \in DOMAIN tasks : LoopRaise(t)

RunSpec == Init /\ [][RunNext]_vars

\* One uninterrupted run: no stop_simulation call and no error in an advance.
\* The event loop runs every coroutine that is ready (weak fairness), and a
\* vehicle that could arrive at its target again and again does arrive
\* (strong fairness of Arrive).
LoopRuns == \E t \in DOMAIN tasks : LoopStep(t)

LiveNext ==
    \/ add_websocket_callback
    \/ \E routes \in ShortRouteLists : tasks = <<>> /\ start_simulation(routes)
    \/ CallStep
    \/ LoopRuns

Arrive(v) ==
    \E t \in DOMAIN tasks :
        /\ update_vehicle_position(t)
        /\ sim_order[tasks[t].i] = v
        /\ active_simulations'[v].position =
               simulation_routes[v].waypoints[
                   TargetIndex(active_simulations[v], simulation_routes[v]) + 1]

LiveSpec ==
    /\ Init /\ [][LiveNext]_vars
    /\ WF_vars(CallStep)
    /\ WF_vars(LoopRuns)
    /\ \A v \in VehicleIds : SF_vars(Arrive(v))

\* ------------------------------------------------------------------ claims
StatusOf(v) == active_simulations[v].status
AllCompleted == \A v \in DOMAIN active_simulations : StatusOf(v) = COMPLETED
AllTasksDone == \A t \in DOMAIN tasks : tasks[t].pc = "done"
HasAwayStop(v) ==
    \E a \in DOMAIN simulation_routes[v].orders :
        simulation_routes[v].orders[a].place # "depot"
\* The vehicle that task t is advancing.
Current(t) == sim_order[tasks[t].i]
Terminal(snap) ==
    /\ ~snap.simulation_active
    /\ \A v \in DOMAIN snap.vehicles :
           snap.vehicles[v].status = COMPLETED /\ snap.vehicles[v].progress = 100

\* C1: in a run that is not stopped and in which no advance raises, every
\* vehicle eventually is COMPLETED and the tick loop has ended with the
\* running flag false.
C1_EventuallyCompleted ==
    (op.pc = "idle" /\ op.last = "start_true")
        ~> (AllCompleted /\ ~is_running /\ AllTasksDone)

\* C2: the advance of an IDLE vehicle whose route has a stop away from the
\* depot takes it out of IDLE: to MOVING, or into the delivery pause that
\* ends in MOVING.
C2_FirstTickLeavesIdle ==
    [][\A t \in DOMAIN tasks :
          (/\ update_vehicle_position(t)
           /\ StatusOf(Current(t)) = IDLE
           /\ HasAwayStop(Current(t)))
          => active_simulations'[Current(t)].status \in {MOVING, DELIVERING}]_vars

\* C3, first part alone: a COMPLETED vehicle has entered DELIVERING once per
\* stop of its route (stop_simulation makes it false).
C3_CompletedAfterAllStops ==
    \A v \in DOMAIN active_simulations :
        StatusOf(v) = COMPLETED => episodes[v] = Len(simulation_routes[v].orders)

\* C3: a vehicle has entered DELIVERING at most once per stop, and exactly
\* once per stop when it is COMPLETED by arriving at its final waypoint (not
\* by stop_simulation); the episodes lower its cargo, which is never below 0.
C3_EpisodesAndCargo ==
    \A v \in DOMAIN active_simulations :
        LET orders == simulation_routes[v].orders
            k == Len(orders)
            vs == active_simulations[v]
        IN  /\ episodes[v] <= k
            /\ vs.current_cargo >= 0
            /\ vs.current_cargo <= initial_cargo(orders)
            /\ (vs.status = COMPLETED /\ v \notin forced)
                   => episodes[v] = k /\ vs.current_cargo = 0
            /\ vs.status = DELIVERING => episodes[v] >= 1

\* C4: while a vehicle is in its delivery pause, every other vehicle that is
\* not COMPLETED can be advanced.
AdvanceOf(u) ==
    \E t \in DOMAIN tasks : update_vehicle_position(t) /\ Current(t) = u
C4_PauseDoesNotHoldLoop ==
    \A t \in DOMAIN tasks :
        tasks[t].pc = "pause" =>
            \A u \in DOMAIN active_simulations :
                (u # Current(t) /\ StatusOf(u) # COMPLETED) => ENABLED AdvanceOf(u)

\* C5: when stop_simulation has returned, the tick loop has ended, the
\* running flag is false, every vehicle is COMPLETED with progress 100, and
\* the call handed the callbacks exactly one snapshot, which lists every
\* vehicle as COMPLETED with progress 100 and simulation_active false.
StopReturned == op.pc = "idle" /\ op.last = "stop"
C6_TickNotAbandoned ==
    [][\A t \in DOMAIN tasks :
          tasks[t].pc \in {"pause", "send_wait"} => tasks'[t].pc # "done"]_vars

\* C7: start_simulation on an engine with no run in progress, followed by
\* stop_simulation before the new task has taken a step: when the run has a
\* vehicle, the two calls hand the callbacks exactly one terminal snapshot,
\* counting only snapshots that list a vehicle.
TerminalSnapshots(snaps) ==
    {a \in DOMAIN snaps : Terminal(snaps[a]) /\ DOMAIN snaps[a].vehicles # {}}
C7_OneTerminalSnapshot ==
    (/\ StopReturned /\ op.prev = "start_true" /\ op.untouched
     /\ ~op.prev_live /\ op.routes # <<>> /\ websocket_callbacks > 0)
    => Cardinality(TerminalSnapshots(op.prev_snaps \o op.snaps)) = 1

C9_OnlyVehiclesOfTheRun ==
    (op.pc = "idle" /\ op.last = "start_true") =>
        DOMAIN active_simulations = {op.routes[a].vehicle_id : a \in DOMAIN op.routes}

\* C10: an error raised by the advance of a vehicle never reaches the tick
\* loop's handler (the loop keeps running).
C10_ErrorDoesNotReachLoop == ~loop_error

\* C11: a COMPLETED vehicle has cargo 0 and speed 0.
C11_CompletedIsEmptyAndStill ==
    \A v \in DOMAIN active_simulations :
        StatusOf(v) = COMPLETED =>
            active_simulations[v].current_cargo = 0 /\ active_simulations[v].speed = 0

\* C12: when the tick loop of a run has ended with no stop_simulation call
\* (by its completion check or its loop condition), every vehicle of the run
\* is COMPLETED with progress 100 and cargo 0.
RunVehicles == {op.routes[a].vehicle_id : a \in DOMAIN op.routes}
LoopEndedOnItsOwn ==
    /\ op.pc = "idle" /\ op.last = "start_true"
    /\ tasks[simulation_task].pc = "done"
    /\ ~loop_error
C13_SpeedWithinMinMax ==
    [][\A t \in DOMAIN tasks :
          update_vehicle_position(t) =>
              active_simulations'[Current(t)].speed \in min_speed..max_speed]_vars

\* What the advance of a vehicle does leave: a speed within [0, max_speed];
\* within [min_speed, max_speed] when the vehicle was MOVING and the advance
\* did not complete its route; 0 when the vehicle was IDLE.
C13_SpeedOfAdvancedVehicle ==
    [][\A t \in DOMAIN tasks :
          update_vehicle_position(t) =>
              LET before == active_simulations[Current(t)]
                  after == active_simulations'[Current(t)]
              IN  /\ after.speed \in 0..max_speed
                  /\ (before.status = MOVING /\ after.status # COMPLETED)
                         => after.speed \in min_speed..max_speed
                  /\ before.status = IDLE => after.speed = 0]_vars

\* C15: the cargo of a vehicle is never below 0 and is the sum of the weights
\* of the orders of its route whose stop it has not reached.
C15_CargoIsWhatIsLeft ==
    \A v \in DOMAIN active_simulations :
        LET orders == simulation_routes[v].orders
        IN  /\ active_simulations[v].current_cargo >= 0
            /\ active_simulations[v].current_cargo =
                   initial_cargo(SubSeq(orders, episodes[v] + 1, Len(orders)))

\* C16: within a run the progress of a vehicle never decreases, and it is
\* within [0, 100].
C16_ProgressMonotone ==
    [][\A v \in DOMAIN active_simulations :
          /\ active_simulations'[v].progress >= active_simulations[v].progress
          /\ active_simulations'[v].progress \in 0..100]_vars

C16_Witness ==
    \E v \in DOMAIN active_simulations :
        /\ active_simulations[v].progress \in 1..99
        /\ active_simulations[v].current_order_index = 2

\* ---------------------------------------------------------------------
\* Steering and speed of one vehicle, in whole degrees and whole km/h.
\* The position is left out: whether a tick moves the vehicle or finds it
\* within the arrival radius is a choice of the specification.

\* The bearings the next waypoint may lie at (_calculate_bearing returns a
\* normalised angle) and the cargo a route may start with.
Bearings == {0, 45, 200, 300}
KinCargos == {0, 6, 12}
max_turn_rate == 30

\* _normalize_angle, lines 450-453: the two while loops, in their order.
RECURSIVE AddTurns(_)
AddTurns(angle) == IF angle < 0 THEN AddTurns(angle + 360) ELSE angle
RECURSIVE SubTurns(_)
SubTurns(angle) == IF angle >= 360 THEN SubTurns(angle - 360) ELSE angle
RECURSIVE SubTurnsAbove(_)
SubTurnsAbove(angle) == IF angle > 360 THEN SubTurnsAbove(angle - 360) ELSE angle

normalize_angle_above(angle) == SubTurnsAbove(AddTurns(angle))
normalize_angle(angle) == SubTurns(AddTurns(angle))

\* _move_vehicle_towards_target, lines 292-301: the heading before the
\* final normalisation.
TurnedHeading(heading, bearing) ==
    LET heading_diff == normalize_angle(bearing - heading)
    IN  IF Abs(heading_diff) > max_turn_rate
        THEN heading + (IF heading_diff > 0 THEN 1 ELSE -1) * max_turn_rate
        ELSE bearing

\* _initialize_vehicle_route, lines 196-208: a start call makes the state.
KinInitialize ==
    /\ \E c \in KinCargos :
           kin' = [status |-> IDLE, heading |-> 0, speed |-> 0,
                   current_cargo |-> c, turned |-> 0, bearing |-> 0]
    /\ UNCHANGED <<engine_vars, conc_vars, ws_vars, osrm_vars>>

\* _update_vehicle_position away from the waypoint:
\* _move_vehicle_towards_target.  The loop advances every vehicle that is
\* not COMPLETED (line 229).
KinMove ==
    /\ kin.status # COMPLETED
    /\ \E bearing \in Bearings, traffic \in TrafficPercents :
           LET turned == TurnedHeading(kin.heading, bearing)
           IN  kin' = [kin EXCEPT !.turned = turned, !.bearing = bearing,
                                  !.heading = normalize_angle(turned),
                                  !.speed = NextSpeed(kin, traffic)]
    /\ UNCHANGED <<engine_vars, conc_vars, ws_vars, osrm_vars>>

\* _handle_waypoint_arrival with an order, lines 350-361.
KinArrive ==
    /\ kin.status # COMPLETED
    /\ kin' = [kin EXCEPT !.status = DELIVERING, !.speed = 0,
                          !.current_cargo = 0]
    /\ UNCHANGED <<engine_vars, conc_vars, ws_vars, osrm_vars>>

\* _handle_waypoint_arrival after the pause, lines 366-370.
KinResume ==
    /\ kin.status = DELIVERING
    /\ \E s \in {MOVING, COMPLETED} : kin' = [kin EXCEPT !.status = s]
    /\ UNCHANGED <<engine_vars, conc_vars, ws_vars, osrm_vars>>

\* stop_simulation, lines 145-147: the status alone is set.
KinStop ==
    /\ kin.status # COMPLETED
    /\ kin' = [kin EXCEPT !.status = COMPLETED]
    /\ UNCHANGED <<engine_vars, conc_vars, ws_vars, osrm_vars>>

KinNext == KinInitialize \/ KinMove \/ KinArrive \/ KinResume \/ KinStop

KinSpec == Init /\ [][KinNext]_vars

C17_OneSnapshotAfterTheTick ==
    [][\A t \in DOMAIN tasks :
         /\ tasks'[t].built > tasks[t].built =>
                /\ tasks[t].pc = "iter" /\ tasks[t].i > Len(sim_order)
                /\ tasks[t].built = 0
                /\ tasks'[t].snap = Snapshot(active_simulations, is_running)
                /\ DOMAIN tasks'[t].snap.vehicles = DOMAIN active_simulations
                /\ RunVehicles \subseteq DOMAIN tasks'[t].snap.vehicles
         /\ tasks[t].pc = "send_wait" =>
                tasks[t].snap.vehicles = Snapshot(active_simulations, is_running).vehicles
         /\ (tasks[t].pc = "check" /\ websocket_callbacks > 0) => tasks[t].built = 1
         /\ tasks[t].pc \in {"iter", "pause"} => tasks[t].built = 0
      ]_vars

\* A tick that advanced a vehicle is sending its snapshot of two vehicles,
\* one of them COMPLETED and the other not.
C17_Witness ==
    \E t \in DOMAIN tasks :
        /\ tasks[t].pc = "send_wait" /\ tasks[t].active_vehicles > 0
        /\ tasks[t].built = 1
        /\ \E v, w \in DOMAIN tasks[t].snap.vehicles :
               /\ tasks[t].snap.vehicles[v].status = COMPLETED
               /\ tasks[t].snap.vehicles[w].status \notin {COMPLETED, IDLE}

\* ---------------------------------------------------------------------
\* ConnectionManager (live_ws.py).  A connection is new (never connected),
\* greeting (registered, its welcome message being sent), open, broken (the
\* client is gone and its handler has not noticed yet) or closed (its
\* handler has run).  A send to a greeting or open connection returns, a
\* send to a broken or closed one raises.  One broadcast runs at a time; it
\* is the tick's (inside the simulation task, which stop_simulation may
\* cancel) or that of stop_simulation.
MaxMessages == 2
Callers == {"tick", "stop"}

Remove(list, c) == SelectSeq(list, LAMBDA x : x # c)
RECURSIVE RemoveAll(_, _)
RemoveAll(list, gone) ==
    IF gone = <<>> THEN list ELSE RemoveAll(Remove(list, Head(gone)), Tail(gone))
Registered == Range(active_connections)
SendRaises(c) == conn[c] \in {"broken", "closed"}
Touch(b) == IF b.pc = "send" THEN [b EXCEPT !.touched = TRUE] ELSE b

\* connect, lines 25-33: the connection is appended and its metadata
\* stored; the welcome message is then being sent.
connect(c) ==
    /\ conn[c] = "new"
    /\ active_connections' = Append(active_connections, c)
    /\ connection_info' = connection_info \cup {c}
    /\ conn' = [conn EXCEPT ![c] = "greeting"]
    /\ bc' = Touch(bc)
    /\ UNCHANGED attempts
    /\ UNCHANGED <<engine_vars, conc_vars, kin_vars, osrm_vars>>

\* send_personal_message, lines 57-61, of the welcome message (message 0):
\* the send returns, or it raises and the connection is disconnected.
send_personal_message(c) ==
    /\ conn[c] = "greeting"
    /\ \E ok \in BOOLEAN :
           /\ attempts' = [attempts EXCEPT
                             ![c] = Append(@, [message |-> 0, ok |-> ok])]
           /\ IF ok
              THEN /\ conn' = [conn EXCEPT ![c] = "open"]
                   /\ UNCHANGED <<active_connections, connection_info, bc>>
              ELSE /\ conn' = [conn EXCEPT ![c] = "broken"]
                   /\ active_connections' = Remove(active_connections, c)
                   /\ connection_info' = connection_info \ {c}
                   /\ bc' = IF c \in Registered THEN Touch(bc) ELSE bc
    /\ UNCHANGED <<engine_vars, conc_vars, kin_vars, osrm_vars>>

\* The client goes away.
ClientLost(c) ==
    /\ conn[c] = "open"
    /\ conn' = [conn EXCEPT ![c] = "broken"]
    /\ UNCHANGED <<active_connections, connection_info, bc, attempts>>
    /\ UNCHANGED <<engine_vars, conc_vars, kin_vars, osrm_vars>>

\* handle_websocket_connection, lines 170-192: receive_text raises
\* WebSocketDisconnect and the finally calls disconnect (lines 45-53).
handler_disconnect(c) ==
    /\ conn[c] \in {"open", "broken"}
    /\ conn' = [conn EXCEPT ![c] = "closed"]
    /\ active_connections' = Remove(active_connections, c)
    /\ connection_info' = connection_info \ {c}
    /\ bc' = IF c \in Registered THEN Touch(bc) ELSE bc
    /\ UNCHANGED attempts
    /\ UNCHANGED <<engine_vars, conc_vars, kin_vars, osrm_vars>>

\* broadcast, lines 65-73: return at once with no connection; otherwise the
\* for loop takes the first connection and awaits its send.
BroadcastBegin(caller) ==
    /\ bc.pc = "none" /\ bc.message < MaxMessages
    /\ IF active_connections = <<>>
       THEN bc' = [NoBroadcast EXCEPT !.message = bc.message + 1,
                                      !.caller = caller, !.last = "empty"]
       ELSE bc' = [NoBroadcast EXCEPT !.pc = "send",
                                      !.message = bc.message + 1,
                                      !.caller = caller,
                                      !.i = 2,
                                      !.connection = active_connections[1],
                                      !.over = active_connections]
    /\ UNCHANGED <<active_connections, connection_info, attempts, conn>>
    /\ UNCHANGED <<engine_vars, conc_vars, kin_vars, osrm_vars>>

\* Lines 72-80: the send returns or raises (the connection is noted); the
\* for loop takes the connection at its index, or is over, and then the
\* noted connections are disconnected.
BroadcastSend(failure_aborts) ==
    /\ bc.pc = "send"
    /\ LET c == bc.connection
           ok == ~SendRaises(c)
           noted == IF ok THEN bc.disconnected_connections
                    ELSE Append(bc.disconnected_connections, c)
       IN  /\ attempts' = [attempts EXCEPT
                             ![c] = Append(@, [message |-> bc.message, ok |-> ok])]
           /\ IF failure_aborts /\ ~ok
              THEN /\ bc' = [bc EXCEPT !.pc = "none", !.last = "raised",
                                       !.connection = "none", !.i = 0,
                                       !.disconnected_connections = <<>>]
                   /\ UNCHANGED <<active_connections, connection_info>>
              ELSE IF bc.i <= Len(active_connections)
              THEN /\ bc' = [bc EXCEPT !.i = @ + 1,
                                       !.connection = active_connections[bc.i],
                                       !.disconnected_connections = noted]
                   /\ UNCHANGED <<active_connections, connection_info>>
              ELSE /\ bc' = [bc EXCEPT !.pc = "none", !.last = "returned",
                                       !.connection = "none", !.i = 0,
                                       !.disconnected_connections = <<>>]
                   /\ active_connections' = RemoveAll(active_connections, noted)
                   /\ connection_info' = connection_info \ Range(noted)
    /\ UNCHANGED conn
    /\ UNCHANGED <<engine_vars, conc_vars, kin_vars, osrm_vars>>

broadcast_stops_at_failure == BroadcastSend(TRUE)
broadcast == BroadcastSend(FALSE)

\* stop_simulation cancels the simulation task (simulator.py line 140)
\* while the tick's broadcast is suspended in a send: CancelledError is
\* raised at line 74, no except clause of lines 75, 250 or 474 catches it,
\* and lines 79-80 do not run.
BroadcastCancelled ==
    /\ bc.pc = "send" /\ bc.caller = "tick"
    /\ bc' = [bc EXCEPT !.pc = "none", !.last = "cancelled",
                        !.connection = "none", !.i = 0,
                        !.disconnected_connections = <<>>]
    /\ UNCHANGED <<active_connections, connection_info, attempts, conn>>
    /\ UNCHANGED <<engine_vars, conc_vars, kin_vars, osrm_vars>>

WsNext ==
    \/ \E c \in Connections : connect(c)
    \/ \E c \in Connections : send_personal_message(c)
    \/ \E c \in Connections : ClientLost(c)
    \/ \E c \in Connections : handler_disconnect(c)
    \/ \E caller \in Callers : BroadcastBegin(caller)
    \/ broadcast
    \/ BroadcastCancelled

WsSpec == Init /\ [][WsNext]_vars

\* The sends of message m tried on connection c.
AttemptsOf(c, m) == SelectSeq(attempts[c], LAMBDA a : a.message = m)
\* Delivery of a broadcast message to c has failed.
DeliveryFailed(c) ==
    \E k \in DOMAIN attempts[c] :
        attempts[c][k].message >= 1 /\ ~attempts[c][k].ok

\* C18: a send that raises does not end the broadcast.  A broadcast that is
\* not cancelled, and during which no handler changed the connection list,
\* returns to its caller (the tick loop goes on) having tried every
\* connection registered at its start exactly once, and having delivered
\* the message to those of them that are open.
C18_FailureDoesNotStopBroadcast ==
    [][(bc.pc = "send" /\ bc'.pc = "none" /\ bc'.last # "cancelled"
          /\ ~bc.touched) =>
         /\ bc'.last = "returned"
         /\ \A c \in Range(bc.over) :
                LET tried == SelectSeq(attempts'[c],
                                       LAMBDA a : a.message = bc.message)
                IN  /\ Len(tried) = 1
                    /\ conn[c] \in {"greeting", "open"} => tried[1].ok
      ]_vars

\* A broadcast has returned in which the send to one connection raised and
\* the send to a connection after it in the list succeeded.
C18_Witness ==
    /\ bc.pc = "none" /\ bc.last = "returned" /\ ~bc.touched
    /\ \E p, q \in DOMAIN bc.over :
           /\ p < q
           /\ Len(AttemptsOf(bc.over[p], bc.message)) = 1
           /\ ~AttemptsOf(bc.over[p], bc.message)[1].ok
           /\ Len(AttemptsOf(bc.over[q], bc.message)) = 1
           /\ AttemptsOf(bc.over[q], bc.message)[1].ok

\* C19: once the delivery of a broadcast message to a connection has
\* failed, no send to that connection is tried again.
C19_NoSendAfterFailure ==
    [][\A c \in Connections : DeliveryFailed(c) => attempts'[c] = attempts[c]]_vars

\* What holds of a broadcast that returns: the connections whose send
\* raised are in neither the list nor the metadata, and the list and the
\* metadata hold the same connections.
C19_RemovedWhenBroadcastReturns ==
    /\ Registered = connection_info
    /\ (bc.pc = "none" /\ bc.last = "returned") =>
           \A c \in Range(bc.over) :
               (Len(AttemptsOf(c, bc.message)) = 1
                  /\ ~AttemptsOf(c, bc.message)[1].ok) => c \notin Registered

\* ---------------------------------------------------------------------
\* EnhancedOSRMClient (osrm_client.py).  One public operation runs at a
\* time.  What the service does with a request is a choice of the
\* specification: it answers well, or the request times out or cannot
\* connect, or the status is not 200, or the code is not "Ok", or the
\* payload cannot be read (response.json() or the use of its fields
\* raises).
max_retries == 3
retry_delay == 1
SinglePoint == "single"
NoPoint == "empty"
\* The points of the inputs, with latitude and longitude in whole degrees.
latitude == [P1 |-> 41, P2 |-> 41, P3 |-> 42]
longitude == [P1 |-> 29, P2 |-> 30, P3 |-> 29]
PointsOf(request) ==
    CASE request = "r1" -> <<"P1", "P2", "P3">>
      [] request = "r2" -> <<"P1", "P3">>
      [] request = SinglePoint -> <<"P1">>
      [] OTHER -> <<>>
\* distance_matrix takes any list of points; route_geometry a start, an end
\* and the points between; optimized_visit_order a depot and any list of
\* delivery points.
InputsOf(operation) ==
    CASE operation = "distance_matrix" -> Requests \cup {SinglePoint, NoPoint}
      [] operation = "route_geometry" -> Requests
      [] OTHER -> Requests \cup {SinglePoint}
Operations == {"distance_matrix", "route_geometry", "optimized_visit_order"}
Outcomes == {"ok", "timeout", "status", "code", "malformed", "empty"}
\* The outcomes that raise inside the request, and those that leave the
\* response unused.  An "empty" answer has status 200 and code "Ok" but
\* none of distances, routes or trips: the matrix raises KeyError on it
\* (line 112), the geometry raises at line 198, the trip falls out of its
\* ifs (line 279).
Raising == {"timeout", "malformed"}
Refused == {"status", "code"}
RaisesInMatrix == Raising \cup {"empty"}

\* The value returned: the service's answer.
Remote(c) == [c EXCEPT !.pc = "returned", !.result = "remote"]
\* An except clause that did not catch would let the error out.
FallBack_not_caught(c) == [c EXCEPT !.pc = "returned", !.raised = TRUE]
\* except Exception (lines 92-94, 163-165, 284-288): the value computed
\* locally (haversine matrix, straight-line geometry, original order).
FallBack(c) == [c EXCEPT !.pc = "returned", !.result = "local"]

\* _haversine_distance, lines 237-253, between two (latitude, longitude)
\* pairs, in whole kilometres: the three distances between the points of
\* the inputs.
haversine_distance(point1, point2) ==
    IF point1 = point2 THEN 0
    ELSE IF point1[1] = point2[1] THEN 84
    ELSE IF point1[2] = point2[2] THEN 111
    ELSE 139

RECURSIVE SumSeq(_)
SumSeq(q) == IF q = <<>> THEN 0 ELSE Head(q) + SumSeq(Tail(q))

\* A fallback that wrote its samples as (longitude, latitude).
create_fallback_geometry_lon_lat(points) ==
    LET coordinates == [i \in DOMAIN points |->
                          <<longitude[points[i]], latitude[points[i]]>>]
        total_distance ==
            SumSeq([i \in 1..(Len(coordinates) - 1) |->
                      haversine_distance(coordinates[i], coordinates[i + 1])])
    IN  [coordinates |-> coordinates,
         distance |-> total_distance * 1000,
         duration |-> (total_distance * 3600) \div 50,
         steps |-> <<>>, geometry_string |-> ""]

\* _create_fallback_geometry, lines 200-220.
create_fallback_geometry(points) ==
    LET coordinates == [i \in DOMAIN points |->
                          <<latitude[points[i]], longitude[points[i]]>>]
        total_distance ==
            SumSeq([i \in 1..(Len(coordinates) - 1) |->
                      haversine_distance(coordinates[i], coordinates[i + 1])])
    IN  [coordinates |-> coordinates,
         distance |-> total_distance * 1000,
         duration |-> (total_distance * 3600) \div 50,
         steps |-> <<>>, geometry_string |-> ""]

\* _calculate_haversine_matrix, lines 222-235.
calculate_haversine_matrix(points) ==
    [i \in DOMAIN points |->
       [j \in DOMAIN points |->
          IF i # j
          THEN haversine_distance(<<latitude[points[i]], longitude[points[i]]>>,
                                  <<latitude[points[j]], longitude[points[j]]>>)
          ELSE 0]]

\* A fallback order that began at 1.
original_order_from_one(delivery_points) == [i \in DOMAIN delivery_points |-> i]
\* Line 288: list(range(len(delivery_points))).
original_order(delivery_points) == [i \in DOMAIN delivery_points |-> i - 1]

\* What the service answers for a geometry, as lines 174-195 read it: a
\* path along roads has a sample between the first two points and is
\* longer than the straight line.
ServiceGeometry(points) ==
    LET g == create_fallback_geometry(points)
    IN  [coordinates |-> <<g.coordinates[1], <<0, 0>>>> \o Tail(g.coordinates),
         distance |-> g.distance + 1000,
         duration |-> g.duration + 60,
         steps |-> <<"step">>, geometry_string |-> "geojson"]

\* The value a returned operation hands to its caller.
ValueOf(c) ==
    LET points == PointsOf(c.request)
    IN  CASE c.result = "zero" -> <<<<0>>>>
          [] c.result = "local" /\ c.op = "distance_matrix" ->
                 calculate_haversine_matrix(points)
          [] c.result = "local" /\ c.op = "route_geometry" ->
                 create_fallback_geometry(points)
          [] c.result = "local" /\ c.op = "optimized_visit_order" ->
                 original_order(Tail(points))
          [] c.result \in {"remote", "cached"} /\ c.op = "route_geometry" ->
                 ServiceGeometry(points)
          [] OTHER -> [from |-> "service"]

\* A lookup that took any entry, whatever its age.
Lookup_any_age(cache, request) == cache[request] # "absent"
\* Lines 70-74 and 145-149: the entry is there and younger than cache_ttl.
Lookup(cache, request) == cache[request] = "fresh"

\* The public operation up to its first request: get_distance_matrix_async
\* lines 66-81, get_route_geometry_async lines 135-152,
\* get_optimized_route_order lines 267-275.
OsrmCall(operation, request) ==
    /\ osrm.pc \in {"idle", "returned"}
    /\ request \in InputsOf(operation)
    /\ LET c == [NoCall EXCEPT !.op = operation, !.request = request]
       IN  osrm' =
             IF operation = "distance_matrix" /\ Len(PointsOf(request)) <= 1
             THEN [c EXCEPT !.pc = "returned", !.result = "zero"]
             ELSE IF \/ operation = "distance_matrix" /\ Lookup(distance_cache, request)
                     \/ operation = "route_geometry" /\ Lookup(route_cache, request)
             THEN [c EXCEPT !.pc = "returned", !.result = "cached"]
             ELSE [c EXCEPT !.pc = "fetch"]
    /\ aged' = FALSE
    /\ UNCHANGED <<current_url, distance_cache, route_cache, service>>
    /\ UNCHANGED <<engine_vars, conc_vars, ws_vars, kin_vars>>

\* _fetch_distance_matrix, lines 103-126, one attempt and what follows it
\* up to the next request, and lines 84-94 when the attempts are over.
fetch_distance_matrix(outcome) ==
    /\ osrm.pc = "fetch" /\ osrm.op = "distance_matrix"
    /\ service = "down" => outcome = "timeout"
    /\ LET attempt == osrm.attempt
           seen == [osrm EXCEPT !.outcomes = Append(@, outcome),
                                !.urls = Append(@, current_url)]
           slept == IF outcome \in RaisesInMatrix /\ attempt < max_retries - 1
                    THEN [seen EXCEPT !.sleeps = Append(@, retry_delay * (attempt + 1))]
                    ELSE seen
       IN  /\ current_url' =
                 IF outcome \in Refused /\ current_url = "primary" /\ attempt = 0
                 THEN "fallback" ELSE current_url
           /\ IF outcome = "ok"
              THEN /\ osrm' = Remote(seen)
                   /\ distance_cache' = [distance_cache EXCEPT ![osrm.request] = "fresh"]
              ELSE /\ osrm' = IF attempt + 1 < max_retries
                              THEN [slept EXCEPT !.attempt = attempt + 1]
                              ELSE FallBack(slept)
                   /\ UNCHANGED distance_cache
    /\ UNCHANGED <<route_cache, aged, service>>
    /\ UNCHANGED <<engine_vars, conc_vars, ws_vars, kin_vars>>

\* _fetch_route_geometry, lines 170-198, and lines 155-165.
fetch_route_geometry(outcome) ==
    /\ osrm.pc = "fetch" /\ osrm.op = "route_geometry"
    /\ service = "down" => outcome = "timeout"
    /\ LET seen == [osrm EXCEPT !.outcomes = Append(@, outcome),
                                !.urls = Append(@, current_url)]
       IN  IF outcome = "ok"
           THEN /\ osrm' = Remote(seen)
                /\ route_cache' = [route_cache EXCEPT ![osrm.request] = "fresh"]
           ELSE /\ osrm' = FallBack(seen)
                /\ UNCHANGED route_cache
    /\ UNCHANGED <<current_url, distance_cache, aged, service>>
    /\ UNCHANGED <<engine_vars, conc_vars, ws_vars, kin_vars>>

\* get_optimized_route_order, lines 275-288: a refused response falls out
\* of the try to the original order, an error is caught and does the same.
get_optimized_route_order(outcome) ==
    /\ osrm.pc = "fetch" /\ osrm.op = "optimized_visit_order"
    /\ service = "down" => outcome = "timeout"
    /\ LET seen == [osrm EXCEPT !.outcomes = Append(@, outcome),
                                !.urls = Append(@, current_url)]
       IN  osrm' = IF outcome = "ok" THEN Remote(seen)
                   ELSE IF outcome \in Raising THEN FallBack(seen)
                   ELSE [seen EXCEPT !.pc = "returned", !.result = "local"]
    /\ UNCHANGED <<current_url, distance_cache, route_cache, aged, service>>
    /\ UNCHANGED <<engine_vars, conc_vars, ws_vars, kin_vars>>

\* The operation in osrm is the one that stored the entry of this request:
\* the entry is younger than the call, so the call has aged when the entry
\* expires.  After a cache hit the entry is older than the call.
StoredBy(operation, request) ==
    osrm.op = operation /\ osrm.request = request /\ osrm.result = "remote"

\* cache_ttl seconds pass after an entry was stored (lines 73, 148).
CacheExpires(request) ==
    /\ osrm.pc \in {"idle", "returned"}
    /\ \/ /\ distance_cache[request] = "fresh"
          /\ distance_cache' = [distance_cache EXCEPT ![request] = "expired"]
          /\ aged' = (aged \/ StoredBy("distance_matrix", request))
          /\ UNCHANGED route_cache
       \/ /\ route_cache[request] = "fresh"
          /\ route_cache' = [route_cache EXCEPT ![request] = "expired"]
          /\ aged' = (aged \/ StoredBy("route_geometry", request))
          /\ UNCHANGED distance_cache
    /\ UNCHANGED <<current_url, osrm, service>>
    /\ UNCHANGED <<engine_vars, conc_vars, ws_vars, kin_vars>>

\* clear_cache, lines 290-294.
clear_cache ==
    /\ osrm.pc \in {"idle", "returned"}
    /\ \E r \in Requests : distance_cache[r] # "absent" \/ route_cache[r] # "absent"
    /\ distance_cache' = [r \in Requests |-> "absent"]
    /\ route_cache' = [r \in Requests |-> "absent"]
    /\ UNCHANGED <<current_url, osrm, aged, service>>
    /\ UNCHANGED <<engine_vars, conc_vars, ws_vars, kin_vars>>

\* get_cache_stats, lines 296-312: the entries and the valid entries.
Entries(cache) == {r \in Requests : cache[r] # "absent"}
ValidEntries(cache) == {r \in Requests : cache[r] = "fresh"}
get_cache_stats ==
    [distance_cache_size |-> Cardinality(Entries(distance_cache)),
     route_cache_size |-> Cardinality(Entries(route_cache)),
     valid_distance_entries |-> Cardinality(ValidEntries(distance_cache)),
     valid_route_entries |-> Cardinality(ValidEntries(route_cache))]

\* cache_ttl seconds pass after the last operation was called.
TimePasses ==
    /\ osrm.pc = "returned" /\ ~aged
    /\ aged' = TRUE
    /\ UNCHANGED <<current_url, distance_cache, route_cache, osrm, service>>
    /\ UNCHANGED <<engine_vars, conc_vars, ws_vars, kin_vars>>

\* The remote service becomes unreachable, or reachable again.
ServiceChanges ==
    /\ service' = IF service = "up" THEN "down" ELSE "up"
    /\ UNCHANGED <<current_url, distance_cache, route_cache, osrm, aged>>
    /\ UNCHANGED <<engine_vars, conc_vars, ws_vars, kin_vars>>

OsrmNext ==
    \/ \E operation \in Operations, request \in Requests \cup {SinglePoint, NoPoint} :
           OsrmCall(operation, request)
    \/ \E outcome \in Outcomes : fetch_distance_matrix(outcome)
    \/ \E outcome \in Outcomes : fetch_route_geometry(outcome)
    \/ \E outcome \in Outcomes : get_optimized_route_order(outcome)
    \/ \E request \in Requests : CacheExpires(request)
    \/ TimePasses
    \/ clear_cache
    \/ ServiceChanges

OsrmSpec == Init /\ [][OsrmNext]_vars

\* C20: no public operation lets an error out to its caller, whatever the
\* service did on each attempt: an operation that has returned has a value,
\* and when no attempt was answered well that value is the one computed
\* locally.
C20_NeverRaises ==
    /\ ~osrm.raised
    /\ osrm.attempt < max_retries
    /\ osrm.pc = "returned" =>
           /\ osrm.result \in {"zero", "cached", "remote", "local"}
           /\ (osrm.outcomes # <<>> /\ "ok" \notin Range(osrm.outcomes)) =>
                  osrm.result = "local"

\* Every operation has returned the local value after each kind of failure;
\* the matrix after failures of every kind over its attempts.
C20_Witness ==
    /\ osrm.pc = "returned" /\ osrm.result = "local"
    /\ osrm.op = "distance_matrix"
    /\ Len(osrm.outcomes) = max_retries
    /\ Range(osrm.outcomes) \cap Raising # {}
    /\ Range(osrm.outcomes) \cap Refused # {}

\* The operations that keep a cache.
Cached == {"distance_matrix", "route_geometry"}
\* This step calls again the operation that has just returned, with the same
\* input, less than cache_ttl after it was called.
RepeatedWithinTtl ==
    /\ osrm.pc = "returned" /\ ~aged
    /\ osrm.op \in Cached /\ osrm.request \in Requests
    /\ osrm'.op = osrm.op /\ osrm'.request = osrm.request
    /\ aged' = FALSE
    /\ UNCHANGED <<distance_cache, route_cache, current_url, service>>

\* C21: a call of distance_matrix or route_geometry repeated with the same
\* input less than cache_ttl after the previous one makes no request,
\* whether the previous one returned the service's answer or the local
\* value.
C21_RepeatWithinTtlMakesNoRequest ==
    [][RepeatedWithinTtl => osrm'.pc # "fetch"]_vars

\* C22: within one distance_matrix call, once the first attempt has failed,
\* every later attempt is sent to the secondary endpoint.
C22_LaterAttemptsOnSecondary ==
    (osrm.op = "distance_matrix" /\ osrm.outcomes # <<>>
       /\ osrm.outcomes[1] # "ok") =>
        \A k \in 2..Len(osrm.urls) : osrm.urls[k] = "fallback"

\* C23: the first request of every distance_matrix call that misses the
\* cache is sent to the primary endpoint.
C23_FirstRequestOnPrimary ==
    (osrm.op = "distance_matrix" /\ osrm.urls # <<>>) => osrm.urls[1] = "primary"

\* C24: route_geometry returns the straight-line geometry only after
\* max_retries failed attempts, those after the first on the secondary
\* endpoint, as distance_matrix does.
C24_GeometryRetriesLikeMatrix ==
    (osrm.op = "route_geometry" /\ osrm.pc = "returned" /\ osrm.result = "local") =>
        /\ Len(osrm.outcomes) = max_retries
        /\ \A k \in 2..Len(osrm.urls) : osrm.urls[k] = "fallback"

\* The cache of an operation, before and after the step.
CacheOf(operation) ==
    IF operation = "distance_matrix" THEN distance_cache ELSE route_cache
CacheOfNext(operation) ==
    IF operation = "distance_matrix" THEN distance_cache' ELSE route_cache'
\* This step is the call of a public operation.
CallMade ==
    /\ osrm.pc \in {"idle", "returned"}
    /\ osrm'.pc \in {"fetch", "returned"}
    /\ aged' = FALSE
    /\ UNCHANGED <<distance_cache, route_cache, current_url, service>>

\* C25: a lookup never returns an entry as old as cache_ttl, the call then
\* goes on as on a miss; a fetch that is answered stores a fresh entry; an
\* entry disappears only when clear_cache empties both caches.
C25_ExpiredEntryIsAMiss ==
    [][/\ (CallMade /\ osrm'.op \in Cached /\ osrm'.request \in Requests) =>
              (osrm'.result = "cached" <=>
                   CacheOf(osrm'.op)[osrm'.request] = "fresh")
       /\ (CallMade /\ osrm'.op \in Cached /\ osrm'.request \in Requests
             /\ CacheOf(osrm'.op)[osrm'.request] # "fresh") =>
              osrm'.pc = "fetch" /\ osrm'.result = "none"
       /\ (osrm.pc = "fetch" /\ osrm.op \in Cached /\ osrm'.result = "remote") =>
              CacheOfNext(osrm.op)[osrm.request] = "fresh"
       /\ \A operation \in Cached, r \in Requests :
              (CacheOf(operation)[r] # "absent"
                 /\ CacheOfNext(operation)[r] = "absent") =>
                  /\ osrm.pc \in {"idle", "returned"} /\ UNCHANGED osrm
                  /\ get_cache_stats'.distance_cache_size = 0
                  /\ get_cache_stats'.route_cache_size = 0
      ]_vars

\* An entry has expired, the call made after that is fetching, and the
\* expired entry is still in the cache.
C25_Witness ==
    /\ osrm.op = "distance_matrix" /\ osrm.pc = "fetch"
    /\ osrm.outcomes # <<>>
    /\ distance_cache[osrm.request] = "expired"
    /\ get_cache_stats.distance_cache_size > get_cache_stats.valid_distance_entries

\* This step returns a geometry to the caller of route_geometry while the
\* service is unreachable: from the cache, or after the request failed.
GeometryReturnedWhileDown ==
    /\ service = "down" /\ UNCHANGED service
    /\ osrm'.op = "route_geometry" /\ osrm'.pc = "returned"
    /\ CallMade \/ osrm.pc = "fetch"
\* The geometry has exactly the samples start, via points in order, end, and
\* as distance the sum in metres of the great-circle distances between
\* consecutive points.
IsStraightLine(g, points) ==
    /\ g.coordinates = [i \in DOMAIN points |->
                          <<latitude[points[i]], longitude[points[i]]>>]
    /\ g.distance =
           1000 * SumSeq([i \in 1..(Len(points) - 1) |->
                            haversine_distance(
                                <<latitude[points[i]], longitude[points[i]]>>,
                                <<latitude[points[i + 1]], longitude[points[i + 1]]>>)])

\* C26 as stated: whenever the service is unreachable, the geometry
\* route_geometry returns is the straight line through its points.
C26_UnreachableGivesStraightLine ==
    [][GeometryReturnedWhileDown =>
           IsStraightLine(ValueOf(osrm'), PointsOf(osrm'.request))]_vars

\* C26, amended: when the service is unreachable and the cache holds no
\* fresh entry for the path, the geometry route_geometry returns is the
\* straight line through its points.
C26_UnreachableMissGivesStraightLine ==
    [][(GeometryReturnedWhileDown /\ route_cache[osrm'.request] # "fresh") =>
           /\ osrm'.result = "local"
           /\ IsStraightLine(ValueOf(osrm'), PointsOf(osrm'.request))]_vars

\* route_geometry has returned the straight line through start, a via point
\* and end after its request found the service unreachable.
C26_Witness ==
    /\ osrm.op = "route_geometry" /\ osrm.pc = "returned"
    /\ osrm.request = "r1" /\ osrm.outcomes = <<"timeout">>
    /\ service = "down"
    /\ ValueOf(osrm).distance = 223000
    /\ Len(ValueOf(osrm).coordinates) = 3

\* C27: for n >= 0 delivery points, optimized_visit_order returns exactly
\* 0, 1, .., n-1 whenever its request failed (error, status, code or empty
\* trips).
C27_FailureGivesOriginalOrder ==
    (osrm.op = "optimized_visit_order" /\ osrm.pc = "returned"
       /\ osrm.outcomes # <<>> /\ osrm.outcomes[1] # "ok") =>
        LET n == Len(PointsOf(osrm.request)) - 1
        IN  /\ Len(ValueOf(osrm)) = n
            /\ \A i \in 1..n : ValueOf(osrm)[i] = i - 1

\* The order 0, 1 has been returned after an answer with empty trips.
C27_Witness ==
    /\ osrm.op = "optimized_visit_order" /\ osrm.pc = "returned"
    /\ osrm.request = "r1" /\ osrm.outcomes = <<"empty">>
    /\ ValueOf(osrm) = <<0, 1>>

\* C28: for 0 or 1 points distance_matrix returns the n x n zero matrix,
\* makes no request and leaves the cache alone.
C28_TrivialMatrix ==
    (osrm.op = "distance_matrix" /\ osrm.pc = "returned"
       /\ Len(PointsOf(osrm.request)) <= 1) =>
        LET n == Len(PointsOf(osrm.request))
        IN  /\ ValueOf(osrm) = [i \in 1..n |-> [j \in 1..n |-> 0]]
            /\ osrm.outcomes = <<>>
            /\ osrm.result = "zero"

\* ------------------------------------------------------------------- C29
\* start_simulation has returned True and the loop it created has not taken
\* its first step.
StartReturnedTrue ==
    /\ op.pc = "idle" /\ op.last = "start_true"
    /\ simulation_task # 0 /\ tasks[simulation_task].pc = "created"
\* The state and the waypoints _initialize_vehicle_route gives a route.
IsAtDepotUnused(route) ==
    LET v == route.vehicle_id
        n == Len(route.orders)
    IN  /\ v \in DOMAIN active_simulations /\ v \in DOMAIN simulation_routes
        /\ active_simulations[v].position = "depot"
        /\ active_simulations[v].speed = 0
        /\ active_simulations[v].fuel_used = 0
        /\ active_simulations[v].progress = 0
        /\ active_simulations[v].current_order_index = 0
        /\ active_simulations[v].status = IDLE
        /\ active_simulations[v].current_cargo = initial_cargo(route.orders)
        /\ Len(simulation_routes[v].waypoints) = n + 2
        /\ simulation_routes[v].waypoints[1] = "depot"
        /\ \A a \in 1..n :
               simulation_routes[v].waypoints[a + 1] = route.orders[a].place
        /\ simulation_routes[v].waypoints[n + 2] = "depot"

\* C29: after start_simulation returned True and before the first tick,
\* the vehicle of every route is at the depot with speed 0, fuel 0,
\* progress 0, waypoint index 0, status IDLE and the sum of the route's
\* order weights as cargo, and its waypoints are depot, the stops in order,
\* depot.
C29_FreshStateAfterStart ==
    StartReturnedTrue => \A a \in DOMAIN op.routes : IsAtDepotUnused(op.routes[a])

\* A second run has been started after the first one ended, for a vehicle
\* with one stop at the site, and start_simulation has returned.
C29_Witness ==
    /\ StartReturnedTrue /\ Len(tasks) = 2
    /\ \E a \in DOMAIN op.routes :
           /\ op.routes[a].vehicle_id = "TR-01"
           /\ Len(op.routes[a].orders) = 1
           /\ simulation_routes["TR-01"].waypoints = <<"depot", "site", "depot">>
           /\ active_simulations["TR-01"].current_cargo = 7
           /\ active_simulations["TR-01"].fuel_used = 0
    /\ tasks[1].pc = "done"

\* ------------------------------------------------------------------- C30
\* The call in progress is a stop_simulation that follows a returned
\* stop_simulation with no call between them.
InSecondStop(o) == o.call = "stop" /\ o.prev = "stop"
\* A step from the return of a stop_simulation to the return of the
\* stop_simulation called next.
UpToSecondStop ==
    /\ (op.pc = "idle" /\ op.last = "stop") \/ InSecondStop(op)
    /\ op'.pc = "idle" \/ InSecondStop(op')

\* C30: a second consecutive stop_simulation leaves every vehicle state and
\* is_running as the first left them, and has no task to await that could
\* raise, whether or not a run was ever started.
C30_SecondStopChangesNothing ==
    [][UpToSecondStop =>
           /\ UNCHANGED <<active_simulations, is_running>>
           /\ InSecondStop(op') => ~op'.live]_vars

\* A second consecutive stop_simulation has returned on an engine whose run
\* the first one had stopped while a vehicle was on its way.
C30_Witness ==
    /\ op.pc = "idle" /\ op.last = "stop" /\ op.prev = "stop"
    /\ ~is_running
    /\ tasks # <<>>
    /\ \E v \in DOMAIN active_simulations :
           /\ v \in forced
           /\ active_simulations[v].status = COMPLETED
           /\ active_simulations[v].fuel_used = SomeFuel

\* ------------------------------------------------------------------- C31
\* The angle between two directions, along the shorter way round.
AngularDistance(a, b) ==
    LET d == normalize_angle(a - b) IN Min(d, 360 - d)
\* This step is a steering step towards kin'.bearing.
Steered ==
    /\ kin.status # COMPLETED /\ kin'.status = kin.status
    /\ kin'.turned = TurnedHeading(kin.heading, kin'.bearing)
    /\ kin'.heading = normalize_angle(kin'.turned)

\* C31: a steering step never increases the angular distance between the
\* heading and the bearing, and brings it to 0 when it was at most
\* max_turn_rate.
C31_TurnsTheShorterWay ==
    [][Steered =>
           /\ AngularDistance(kin'.heading, kin'.bearing)
                  <= AngularDistance(kin.heading, kin'.bearing)
           /\ AngularDistance(kin.heading, kin'.bearing) <= max_turn_rate
                  => AngularDistance(kin'.heading, kin'.bearing) = 0]_vars

\* ------------------------------------------------------------------- C32
\* The status changes the vehicle state machine allows.
StatusChanges ==
    {<<IDLE, MOVING>>, <<MOVING, DELIVERING>>, <<DELIVERING, MOVING>>,
     <<MOVING, COMPLETED>>}
\* This step brings vehicle v to an interior waypoint of its route.
ArrivesAtStop(v) ==
    LET route == simulation_routes[v]
        target == TargetIndex(active_simulations[v], route)
    IN  /\ IsDeliveryStop(route, target)
        /\ active_simulations'[v].position = route.waypoints[target + 1]

\* C32: in a run without stop_simulation every status change of a vehicle
\* is IDLE -> MOVING, MOVING -> DELIVERING, DELIVERING -> MOVING or
\* MOVING -> COMPLETED; DELIVERING is entered only on arrival at an interior
\* waypoint, and COMPLETED is never left.
C32_StatusChanges ==
    [][\A v \in DOMAIN active_simulations \cap DOMAIN active_simulations' :
          StatusOf(v) # active_simulations'[v].status =>
              /\ <<StatusOf(v), active_simulations'[v].status>> \in StatusChanges
              /\ active_simulations'[v].status = DELIVERING => ArrivesAtStop(v)]_vars

\* ------------------------------------------------------------------- C33
\* C33: the tick in which the last vehicle becomes COMPLETED is the final
\* one: its completion check ends the loop, and every tick that builds a
\* snapshot has advanced a vehicle.
C33_LoopEndsWithLastCompletion ==
    [][\A t \in DOMAIN tasks :
          /\ (tasks[t].pc = "check" /\ AllCompleted /\ tasks'[t] # tasks[t])
                 => tasks'[t].pc = "done"
          /\ tasks'[t].built > tasks[t].built => tasks[t].active_vehicles > 0]_vars

\* ------------------------------------------------------------------- C34
\* This step ends the delivery pause of task t at an interior waypoint.
PauseEnds(t) ==
    /\ tasks[t].pc = "pause" /\ tasks'[t].pc = "iter"
    /\ IsDeliveryStop(simulation_routes[Current(t)], tasks[t].wp)

\* C34: after the arrival at the interior waypoint with index i of a route
\* with N waypoints (both depot entries counted), the vehicle's waypoint
\* index is i and its progress is (i / N) * 100.
C34_ProgressIsIndexOverWaypoints ==
    [][\A t \in DOMAIN tasks :
          PauseEnds(t) =>
              LET v == Current(t)
                  N == Len(simulation_routes[v].waypoints)
              IN  /\ active_simulations'[v].current_order_index = tasks[t].wp
                  /\ active_simulations'[v].progress = (tasks[t].wp * 100) \div N]_vars

\* ------------------------------------------------------------------- C35
\* The failed attempts of the call that another attempt has followed or
\* will follow.
FollowedAttempts(c) ==
    IF c.pc = "fetch" THEN Len(c.outcomes) ELSE Len(c.outcomes) - 1

\* C35: within one distance_matrix call every failed attempt that another
\* attempt follows is followed by a sleep of retry_delay times its number,
\* whatever the failure.
C35_BackoffAfterEveryFailure ==
    (osrm.op = "distance_matrix" /\ osrm.outcomes # <<>>) =>
        /\ Len(osrm.sleeps) = FollowedAttempts(osrm)
        /\ \A a \in DOMAIN osrm.sleeps : osrm.sleeps[a] = retry_delay * a

\* ---------------------------------------------------------------------
\* The engine under calls that overlap.  start_simulation and
\* stop_simulation are coroutines: while one is suspended at an await
\* (the cancelled task, line 142; a callback of the final broadcast, line
\* 473; the route geometry, line 174) the event loop may run another call
\* or a tick loop.  Every action below is the code from one await to the
\* next.  The vehicle table holds one vehicle.  A task keeps the
\* VehicleState object whose delivery it is waiting out (vehicle_state, the
\* argument of _handle_waypoint_arrival) and the statuses listed in the
\* snapshot it is sending (snap).
MaxLoops == 3
NoStatuses == <<>>
NewConcTask == [pc |-> "created", must_cancel |-> FALSE, active_vehicles |-> 0,
                vehicle_state |-> 0, snap |-> NoStatuses]
\* _broadcast_all_vehicle_states, lines 463-468: the statuses listed.
ConcSnapshot(sims) == [v \in DOMAIN sims |-> sims[v].status]
ConcSuspended == {"created", "pause", "send_wait", "sleep"}

\* Lines 147-149 on the table of statuses.
ConcMark(sims) == [v \in DOMAIN sims |-> [sims[v] EXCEPT !.status = COMPLETED]]
\* Lines 124-128: the flag is set, the task is created and stored, and
\* caller c's start_simulation returns True.
ConcLaunch(e, c) ==
    [e EXCEPT !.is_running = TRUE,
              !.tasks = Append(@, NewConcTask),
              !.simulation_task = Len(e.tasks) + 1,
              !.calls[c] = NoConcCall,
              !.last = "start"]

\* Lines 137-142 (under start_simulation, line 117, or called directly):
\* the flag is cleared; a task that is not done is cancelled and awaited,
\* otherwise the vehicles are marked and the final broadcast begins.
ConcStopBegin(c, call, routes) ==
    /\ conc.calls[c].pc = "idle"
    /\ LET task == conc.simulation_task
       IN  IF task # 0 /\ conc.tasks[task].pc # "done"
           THEN conc' = [conc EXCEPT
                           !.is_running = FALSE,
                           !.tasks[task].must_cancel = TRUE,
                           !.calls[c] = [pc |-> "stop_wait", call |-> call,
                                         awaited |-> task, routes |-> routes]]
           ELSE conc' = [conc EXCEPT
                           !.is_running = FALSE,
                           !.active_simulations = ConcMark(@),
                           !.calls[c] = [pc |-> "stop_send", call |-> call,
                                         awaited |-> 0, routes |-> routes]]
    /\ UNCHANGED <<engine_vars, ws_vars, kin_vars, osrm_vars>>

\* Lines 142-151: the awaited task is done; the vehicles are marked and the
\* final broadcast begins.
ConcStopAwaited(c) ==
    /\ conc.calls[c].pc = "stop_wait"
    /\ conc.tasks[conc.calls[c].awaited].pc = "done"
    /\ conc' = [conc EXCEPT !.active_simulations = ConcMark(@),
                            !.calls[c].pc = "stop_send",
                            !.calls[c].awaited = 0]
    /\ UNCHANGED <<engine_vars, ws_vars, kin_vars, osrm_vars>>

\* Line 153: the final broadcast is over and stop_simulation returns, to
\* its caller or to line 119, where start_simulation goes on to the first
\* route's geometry (line 174) or, with no route, to lines 124-128.
ConcStopReturn(c) ==
    /\ conc.calls[c].pc = "stop_send"
    /\ conc' = IF conc.calls[c].call = "stop"
               THEN [conc EXCEPT !.calls[c] = NoConcCall, !.last = "stop"]
               ELSE IF conc.calls[c].routes = 0
               THEN ConcLaunch(conc, c)
               ELSE [conc EXCEPT !.calls[c].pc = "init_wait"]
    /\ UNCHANGED <<engine_vars, ws_vars, kin_vars, osrm_vars>>

\* Lines 181-208 and 124-128: the geometry is there, a new VehicleState
\* with status IDLE is stored under the vehicle id, and start_simulation
\* launches the loop and returns.
ConcInitialized(c) ==
    /\ conc.calls[c].pc = "init_wait"
    /\ conc' = ConcLaunch(
                   [conc EXCEPT
                      !.objects = @ + 1,
                      !.active_simulations =
                          ("TR-01" :> [status |-> IDLE, object |-> conc.objects + 1])
                              @@ @], c)
    /\ UNCHANGED <<engine_vars, ws_vars, kin_vars, osrm_vars>>

\* Lines 217-229 and 246, from the start of the task or the end of the tick
\* sleep to the next await: the while test, then the advance of the
\* vehicle, which moves it on, reaches a stop (the delivery sleep of line
\* 364) or reaches the end of the route.
ConcLoopTick(t) ==
    /\ conc.tasks[t].pc \in {"created", "sleep"} /\ ~conc.tasks[t].must_cancel
    /\ IF ~(conc.is_running /\ conc.active_simulations # <<>>)
       THEN conc' = [conc EXCEPT !.tasks[t].pc = "done", !.is_running = FALSE]
       ELSE IF conc.active_simulations["TR-01"].status = COMPLETED
       THEN conc' = [conc EXCEPT
                       !.tasks[t].pc = "send_wait",
                       !.tasks[t].active_vehicles = 0,
                       !.tasks[t].snap = ConcSnapshot(conc.active_simulations)]
       ELSE \E arrival \in {"none", "stop", "end"} :
              conc' = CASE arrival = "none" ->
                             [conc EXCEPT
                                !.tasks[t].pc = "send_wait",
                                !.tasks[t].active_vehicles = 1,
                                !.tasks[t].snap =
                                    ConcSnapshot(conc.active_simulations)]
                        [] arrival = "stop" ->
                             [conc EXCEPT
                                !.tasks[t].pc = "pause",
                                !.tasks[t].vehicle_state =
                                    conc.active_simulations["TR-01"].object,
                                !.active_simulations["TR-01"].status = DELIVERING]
                        [] OTHER ->
                             [conc EXCEPT
                                !.tasks[t].pc = "send_wait",
                                !.tasks[t].active_vehicles = 1,
                                !.active_simulations["TR-01"].status = COMPLETED,
                                !.tasks[t].snap =
                                    [v \in DOMAIN conc.active_simulations |->
                                       COMPLETED]]
    /\ UNCHANGED <<engine_vars, ws_vars, kin_vars, osrm_vars>>

\* Lines 366-370 and 226-229: the delivery sleep is over and MOVING is
\* written to the VehicleState the task holds, which is the one in the
\* table unless a start_simulation has stored a new one meanwhile.
ConcPauseEnd(t) ==
    /\ conc.tasks[t].pc = "pause" /\ ~conc.tasks[t].must_cancel
    /\ LET sims ==
               IF conc.active_simulations["TR-01"].object = conc.tasks[t].vehicle_state
               THEN [conc.active_simulations EXCEPT !["TR-01"].status = MOVING]
               ELSE conc.active_simulations
       IN  conc' = [conc EXCEPT !.tasks[t].pc = "send_wait",
                                !.tasks[t].active_vehicles = 1,
                                !.tasks[t].vehicle_state = 0,
                                !.active_simulations = sims,
                                !.tasks[t].snap = ConcSnapshot(sims)]
    /\ UNCHANGED <<engine_vars, ws_vars, kin_vars, osrm_vars>>

\* Lines 232-239 and 246: the tick's broadcast is over; break when no
\* vehicle was advanced, the tick sleep otherwise.
ConcLoopCheck(t) ==
    /\ conc.tasks[t].pc = "send_wait" /\ ~conc.tasks[t].must_cancel
    /\ conc' = IF conc.tasks[t].active_vehicles = 0
               THEN [conc EXCEPT !.tasks[t].pc = "done", !.is_running = FALSE,
                                 !.tasks[t].snap = NoStatuses]
               ELSE [conc EXCEPT !.tasks[t].pc = "sleep",
                                 !.tasks[t].active_vehicles = 0,
                                 !.tasks[t].snap = NoStatuses]
    /\ UNCHANGED <<engine_vars, ws_vars, kin_vars, osrm_vars>>

\* Lines 241-246: the CancelledError of task.cancel() arrives at the await
\* the task is suspended in.  A task that never ran ends without its
\* finally.
ConcCancelled(t) ==
    /\ conc.tasks[t].pc \in ConcSuspended /\ conc.tasks[t].must_cancel
    /\ conc' = [conc EXCEPT !.tasks[t].pc = "done",
                            !.tasks[t].vehicle_state = 0,
                            !.tasks[t].snap = NoStatuses,
                            !.is_running = IF conc.tasks[t].pc = "created"
                                           THEN @ ELSE FALSE]
    /\ UNCHANGED <<engine_vars, ws_vars, kin_vars, osrm_vars>>

ConcNext ==
    \/ \E c \in Operators, routes \in 0..1 :
           Len(conc.tasks) < MaxLoops /\ ConcStopBegin(c, "start", routes)
    \/ \E c \in Operators : ConcStopBegin(c, "stop", 0)
    \/ \E c \in Operators : ConcStopAwaited(c)
    \/ \E c \in Operators : ConcStopReturn(c)
    \/ \E c \in Operators : ConcInitialized(c)
    \/ \E t \in DOMAIN conc.tasks : ConcLoopTick(t)
    \/ \E t \in DOMAIN conc.tasks : ConcPauseEnd(t)
    \/ \E t \in DOMAIN conc.tasks : ConcLoopCheck(t)
    \/ \E t \in DOMAIN conc.tasks : ConcCancelled(t)

ConcSpec == Init /\ [][ConcNext]_vars

\* ------------------------------------------------------------------- C36
\* The tick loops that have begun and have not ended.
ActiveLoops ==
    {t \in DOMAIN conc.tasks : conc.tasks[t].pc \notin {"created", "done"}}
NoCallInProgress == \A c \in Operators : conc.calls[c].pc = "idle"

\* C36: at most one tick loop is active, whatever the interleaving of the
\* calls at their awaits, and none is active once the last call to return
\* was a stop_simulation and no call is in progress.
C36_AtMostOneLoop ==
    /\ Cardinality(ActiveLoops) <= 1
    /\ (NoCallInProgress /\ conc.last = "stop") => ActiveLoops = {}

\* ------------------------------------------------------------------- C37
\* C37: when a broadcast returns, every connection that was registered from
\* its start to its end and whose send succeeds has been sent the message
\* exactly once, also when a handler disconnected or connected another
\* connection while the broadcast was suspended in a send.
C37_ExactlyOnceUnderChurn ==
    [][(bc.pc = "send" /\ bc'.pc = "none" /\ bc'.last = "returned") =>
         \A c \in Range(bc.over) \cap Registered :
             conn[c] \in {"greeting", "open"} =>
                 LET tried == SelectSeq(attempts'[c],
                                        LAMBDA a : a.message = bc.message)
                 IN  Len(tried) = 1 /\ tried[1].ok]_vars

\* ------------------------------------------------------------------- C38
\* This step builds the snapshot of the tick after which task t ends on its
\* own: every vehicle has been visited and none was advanced (line 232).
BuildsLastSnapshot(t) ==
    /\ tasks'[t].built > tasks[t].built
    /\ tasks[t].pc = "iter" /\ tasks[t].i > Len(sim_order)
    /\ tasks[t].active_vehicles = 0

\* C38: when the loop ends on its own, the last snapshot it hands to the
\* callbacks reports simulation_active = false.
C38_LastSnapshotInactive ==
    [][\A t \in DOMAIN tasks :
          BuildsLastSnapshot(t) => ~tasks'[t].snap.simulation_active]_vars

\* ---------------------------------------------------------------------
\* start_simulation with a route that cannot be initialized.
\* _initialize_vehicle_route raises for the route at op.r (a missing key,
\* lines 158-168, or weights that cannot be added, line 194): the routes
\* before it are stored, its own state is not, and the except of lines
\* 130-132 makes start_simulation return False.
initialize_vehicle_route_raises ==
    /\ op.pc = "init_wait" /\ OpMayStep
    /\ op' = [op EXCEPT !.pc = "idle", !.call = "none", !.r = 0,
                        !.last = "start_false"]
    /\ UNCHANGED <<outside, active_simulations, simulation_routes, sim_order,
                   websocket_callbacks, is_running, simulation_task, tasks,
                   episodes, forced, loop_error>>

\* One uninterrupted run on an engine whose start calls may fail.
FailNext ==
    \/ LiveNext
    \/ initialize_vehicle_route_raises

FailSpec == Init /\ [][FailNext]_vars

\* ------------------------------------------------------------------- C39
StartReturnedFalse == op.pc = "idle" /\ op.last = "start_false"

\* C39: when start_simulation has returned False, no loop has been
\* launched, is_running is false and every vehicle the engine holds is
\* COMPLETED.
C39_FailedStartLeavesNothingIdle ==
    StartReturnedFalse =>
        /\ AllTasksDone
        /\ ~is_running
        /\ AllCompleted

\* ------------------------------------------------------------------- C40
\* C40: no snapshot that a tick loop sends lists a vehicle as DELIVERING.
C40_NoDeliveringInTickSnapshot ==
    \A t \in DOMAIN conc.tasks :
        \A v \in DOMAIN conc.tasks[t].snap : conc.tasks[t].snap[v] # DELIVERING

====
